---- MODULE Spec2Model ----
(***************************************************************************)
(* The question-answering core of rag-search: the /aisearch pipeline       *)
(* (services/qa_engine.py rag_pipeline + get_llm_answer, routers/search.py *)
(* ai_search), the LangChain variant (services/langchain_flow.py) and the  *)
(* ChromaDB FAQ cache (test2.py add_faq / find_similar_faq).                *)
(* Further on: the cache gate of /aisearch_v2, the same question asked     *)
(* twice, remove_citation_markers (services/utils.py), and queries in      *)
(* flight together, stepping through rag_pipeline and add_faq.             *)
(* Last: fix_line_breaks and get_threshold_by_length as functions of      *)
(* their text, and the document store of data_manager_api.py.              *)
(*                                                                         *)
(* Texts are sequences of one-character strings.  Relevance scores are in  *)
(* tenths (0.5 is 5), cosine similarities and thresholds in thousandths    *)
(* (0.775 is 775).  The embedding provider, the two search indexes, the    *)
(* language model and the ChromaDB backend are external: what they answer  *)
(* is an input of each request.                                            *)
(***************************************************************************)
EXTENDS Integers, Sequences, FiniteSets, TLC

VARIABLES
    cache,   \* faq_collection: the entries in insertion order, [id, question, answer]
    req,     \* the request being handled: the question and what the collaborators answer
    resp,    \* what the caller gets: [kind, text]
    calls,   \* the external calls made for the request
    ctx,     \* the context handed to the language model (<<>> when none was built)
    llm,     \* what the language model did when it was called: [ok, raw]
    phase    \* "received" or "idle" until a handler has answered, then "responded"

vars == <<cache, req, resp, calls, ctx, llm, phase>>

----------------------------------------------------------------------------
(* Bounds of the model *)

MaxPerIndex == 2      \* passages one index returns for one query
MaxQuestions == 2     \* distinct questions put to the cache
MaxPieces == 3        \* pieces a text to be cleaned is put together from
MaxQueries == 2       \* queries in flight at the same time

(* Program constants *)

ScoreThreshold == 5   \* res["score"] >= 0.5, in tenths
TopN == 3             \* [:3]
TopK == 5             \* retrieve_and_rank(top_k=5)

----------------------------------------------------------------------------
(* Texts *)

Whitespace == {" ", "\n", "\t"}

NoText == <<>>

\* str.strip(): leading and trailing whitespace removed
RECURSIVE LStrip(_)
LStrip(s) ==
    IF s # <<>> /\ Head(s) \in Whitespace THEN LStrip(Tail(s)) ELSE s

RECURSIVE RStrip(_)
RStrip(s) ==
    IF s # <<>> /\ s[Len(s)] \in Whitespace
    THEN RStrip(SubSeq(s, 1, Len(s) - 1))
    ELSE s

Strip(s) == RStrip(LStrip(s))

\* sub in s
Contains(s, sub) ==
    \E i \in 1..(Len(s) - Len(sub) + 1) : SubSeq(s, i, i + Len(sub) - 1) = sub

\* len(text.split()): the maximal runs of non-whitespace characters
WordCount(s) ==
    Cardinality({i \in 1..Len(s) :
        /\ s[i] \notin Whitespace
        /\ (i = 1 \/ s[i - 1] \in Whitespace)})

\* a fix_line_breaks that turns every newline into a space
FixLineBreaksEveryNewline(s) ==
    Strip([i \in 1..Len(s) |-> IF s[i] = "\n" THEN " " ELSE s[i]])

\* re.sub(r"(?<!\n)\n(?!\n)", " ", text).strip()
FixLineBreaks(s) ==
    Strip([i \in 1..Len(s) |->
        IF /\ s[i] = "\n"
           /\ (i = 1 \/ s[i - 1] # "\n")
           /\ (i = Len(s) \/ s[i + 1] # "\n")
        THEN " "
        ELSE s[i]])

Sentinel == <<"N","O","_","A","N","S","W","E","R","_","F","O","U","N","D">>

ErrorPrefix ==
    <<"E","r","r","o","r"," ","g","e","n","e","r","a","t","i","n","g"," ",
      "a","n","s","w","e","r",":"," ">>

(* Code points, for the Thai-range test of generate_answer *)

AsciiPrintable ==
    <<" ","!","QUOTE","#","$","%","&","'","(",")","*","+",",","-",".","/","0",
      "1","2","3","4","5","6","7","8","9",":",";","<","=",">","?","@","A","B",
      "C","D","E","F","G","H","I","J","K","L","M","N","O","P","Q","R","S","T",
      "U","V","W","X","Y","Z","[","BACKSLASH","]","^","_","BACKTICK","a","b","c","d","e",
      "f","g","h","i","j","k","l","m","n","o","p","q","r","s","t","u","v","w",
      "x","y","z","{","|","}","~">>

\* ord(c); a non-ASCII character is written U+hhhh, the double quote QUOTE,
\* the backslash BACKSLASH and the backtick BACKTICK
CodePoint(c) ==
    IF \E i \in 1..Len(AsciiPrintable) : AsciiPrintable[i] = c
    THEN 31 + (CHOOSE i \in 1..Len(AsciiPrintable) : AsciiPrintable[i] = c)
    ELSE CASE c = "\t" -> 9
           [] c = "\n" -> 10
           [] c = "U+0E04" -> 3588
           [] c = "U+0E23" -> 3619
           [] c = "U+0E2D" -> 3629
           [] c = "U+0E30" -> 3632
           [] c = "U+0E37" -> 3639
           [] c = "U+0E44" -> 3652
           [] c = "U+0E51" -> 3665

\* any(U+0E00 <= c <= U+0E7F for c in question)
\* a test that asks for every character to be Thai
HasThaiOnly(question) ==
    /\ question # <<>>
    /\ \A i \in 1..Len(question) :
        /\ 3584 <= CodePoint(question[i])
        /\ CodePoint(question[i]) <= 3711

HasThai(question) ==
    \E i \in 1..Len(question) :
        /\ 3584 <= CodePoint(question[i])
        /\ CodePoint(question[i]) <= 3711

----------------------------------------------------------------------------
(* The inputs of a request *)

QuestionEnglish ==
    <<"W","h","a","t"," ","i","s"," ","R","A","G","?">>

QuestionThai ==
    <<"R","A","G"," ","U+0E04","U+0E37","U+0E2D","U+0E2D","U+0E30","U+0E44",
      "U+0E23">>

QuestionLong ==
    <<"H","o","w"," ","d","o"," ","I"," ","c","a","r","e"," ","f","o","r"," ",
      "j","e","a","n","s","?">>

Questions == {QuestionEnglish, QuestionThai}

ContentA == <<"R","A","G"," ","i","s","\n","r","e","t","r","i","e","v","a","l",".">>
ContentB == <<"j","e","a","n","s","\n","\n","c","o","l","d">>

\* {"score": result["@search.score"], "content": result[content_field]}
Passage(score, content) == [score |-> score, content |-> content]

Passages ==
    { Passage(9, ContentA), Passage(7, ContentB), Passage(6, ContentA),
      Passage(5, ContentA), Passage(5, ContentB), Passage(3, ContentB) }

\* An index answers with distinct documents, best score first.
Ranked(docs) ==
    \A i, j \in 1..Len(docs) :
        i < j => /\ docs[i].score >= docs[j].score
                 /\ docs[i] # docs[j]

IndexResults ==
    { docs \in UNION { [1..n -> Passages] : n \in 0..MaxPerIndex } : Ranked(docs) }

\* What one index does when searched: it answers, or the search raises.
IndexReplies ==
    { [ok |-> TRUE, docs |-> docs] : docs \in IndexResults }
        \cup { [ok |-> FALSE, docs |-> <<>>] }

\* What the FAQ cache does for a request: whether its lookup and its insert go
\* through, the entry ChromaDB finds nearest (0: none) and the cosine
\* similarity computed for it; answer is the second argument of add_faq.
NoFaq ==
    [lookupOk |-> TRUE, insertOk |-> TRUE, nearest |-> 0, similarity |-> 0,
     answer |-> <<>>]

NoDocs == [ok |-> TRUE, docs |-> <<>>]

\* request.text == "": the request model accepts any str; the embedding
\* provider may take the empty text or refuse it
QuestionEmpty == <<>>

EmptyRequests ==
    { [question |-> QuestionEmpty, embedOk |-> e, text |-> t, pdf |-> NoDocs,
       faq |-> NoFaq] :
        e \in BOOLEAN,
        t \in { NoDocs, [ok |-> TRUE, docs |-> <<Passage(9, ContentA)>>] } }

Requests ==
    { [question |-> q, embedOk |-> TRUE, text |-> t, pdf |-> p, faq |-> NoFaq] :
        q \in Questions, t \in IndexReplies, p \in IndexReplies }
    \cup
    { [question |-> q, embedOk |-> FALSE, text |-> NoDocs, pdf |-> NoDocs,
       faq |-> NoFaq] : q \in Questions }
    \cup EmptyRequests

\* What the language model does when called: it answers raw text, or the call
\* raises with a message.
Pads == { <<>>, <<"\n">>, <<"o","k"," ">> }

Cores == { <<>>, Sentinel, <<"N","O","_","A","N","S","W","E","R">>, <<"R","A","G">> }

\* an output in which the model cites a document although told not to
Cited == <<"R","A","G"," ","[","d","o","c","1","]",".">>

LlmReplies ==
    { [ok |-> TRUE, raw |-> pre \o core \o post] :
        pre \in Pads, core \in Cores, post \in Pads }
    \cup { [ok |-> FALSE, raw |-> <<"4","2","9">>] }
    \cup { [ok |-> TRUE, raw |-> Cited] }

NotCalled == [ok |-> TRUE, raw |-> <<>>]

----------------------------------------------------------------------------
(* services/qa_engine.py: the /aisearch pipeline *)

Take(s, n) == SubSeq(s, 1, IF Len(s) < n THEN Len(s) ELSE n)

\* sorted(results, key=score, reverse=True): stable, so passages of equal
\* score keep the order they were combined in
RECURSIVE SortedByScore(_)
SortedByScore(docs) ==
    IF docs = <<>>
    THEN <<>>
    ELSE LET rest == SortedByScore(Tail(docs))
             k == Cardinality({i \in 1..Len(rest) : rest[i].score > Head(docs).score})
         IN  SubSeq(rest, 1, k) \o <<Head(docs)>> \o SubSeq(rest, k + 1, Len(rest))

AboveThresholdAny(res) == res.score >= 0

\* res["score"] >= 0.5
AboveThreshold(res) == res.score >= ScoreThreshold

TopResultsUnsorted(combined) ==
    Take(SelectSeq(combined, AboveThreshold), TopN)

\* the passages of docs without those whose content an earlier one has
RECURSIVE DistinctContent(_)
DistinctContent(docs) ==
    IF docs = <<>>
    THEN <<>>
    ELSE LET init == DistinctContent(SubSeq(docs, 1, Len(docs) - 1))
             last == docs[Len(docs)]
         IN  IF \E i \in 1..Len(init) : init[i].content = last.content
             THEN init
             ELSE Append(init, last)

\* a selection that drops passages of equal content
TopResultsDeduplicated(combined) ==
    Take(DistinctContent(SelectSeq(SortedByScore(combined), AboveThreshold)), TopN)

\* [res for res in sorted_results if res["score"] >= 0.5][:3]
TopResults(combined) ==
    Take(SelectSeq(SortedByScore(combined), AboveThreshold), TopN)

ExcerptOpen ==
    <<"-","-","-"," ","E","x","c","e","r","p","t"," ">>

ExcerptClose ==
    <<" ","-","-","-","\n">>

\* str(i) for the excerpt numbers
Digit(i) == AsciiPrintable[17 + i]

\* f"--- Excerpt {i} ---\n{cleaned_content}\n\n" for i, result in enumerate(top_results, 1)
RECURSIVE ContextFrom(_, _)
ContextFrom(top, i) ==
    IF i > Len(top)
    THEN <<>>
    ELSE ExcerptOpen \o <<Digit(i)>> \o ExcerptClose
            \o FixLineBreaks(top[i].content) \o <<"\n","\n">>
            \o ContextFrom(top, i + 1)

\* a context whose excerpts are in the opposite order
ContextForLlmReversed(top) ==
    ContextFrom([i \in 1..Len(top) |-> top[Len(top) + 1 - i]], 1)

ContextForLlm(top) == ContextFrom(top, 1)

GetLlmAnswerExactSentinel(context, reply) ==
    IF context = <<>> \/ Strip(context) = <<>>
    THEN [kind |-> "None", text |-> <<>>, llm |-> 0]
    ELSE IF ~reply.ok
    THEN [kind |-> "str", text |-> ErrorPrefix \o reply.raw, llm |-> 1]
    ELSE IF Strip(reply.raw) = Sentinel \/ Strip(reply.raw) = <<>>
    THEN [kind |-> "list", text |-> <<>>, llm |-> 1]
    ELSE [kind |-> "str", text |-> Strip(reply.raw), llm |-> 1]

\* a get_llm_answer that does not trim the model output
GetLlmAnswerUntrimmed(context, reply) ==
    IF context = <<>> \/ Strip(context) = <<>>
    THEN [kind |-> "None", text |-> <<>>, llm |-> 0]
    ELSE IF ~reply.ok
    THEN [kind |-> "str", text |-> ErrorPrefix \o reply.raw, llm |-> 1]
    ELSE IF Contains(reply.raw, Sentinel) \/ reply.raw = <<>>
    THEN [kind |-> "list", text |-> <<>>, llm |-> 1]
    ELSE [kind |-> "str", text |-> reply.raw, llm |-> 1]

\* get_llm_answer: None without a context; otherwise one model call, whose
\* failure comes back as a text
GetLlmAnswer(context, reply) ==
    IF context = <<>> \/ Strip(context) = <<>>
    THEN [kind |-> "None", text |-> <<>>, llm |-> 0]
    ELSE IF ~reply.ok
    THEN [kind |-> "str", text |-> ErrorPrefix \o reply.raw, llm |-> 1]
    ELSE LET answer == Strip(reply.raw)
         IN  IF Contains(answer, Sentinel) \/ answer = <<>>
             THEN [kind |-> "list", text |-> <<>>, llm |-> 1]
             ELSE [kind |-> "str", text |-> answer, llm |-> 1]

Raised(embed, search) ==
    [kind |-> "raise", text |-> <<>>, embed |-> embed, search |-> search,
     llm |-> 0, top |-> <<>>, context |-> <<>>]

\* Steps 3 and 4 of rag_pipeline: the context is assembled and the answer
\* generated
Answered(top, context, final) ==
    [kind |-> IF final.kind = "None" THEN "list" ELSE final.kind,
     text |-> final.text, embed |-> 1, search |-> 2,
     llm |-> final.llm, top |-> top, context |-> context]

Assembled(top, context, reply) == Answered(top, context, GetLlmAnswer(context, reply))

Fused(top, reply) ==
    IF top = <<>>
    THEN [kind |-> "list", text |-> <<>>, embed |-> 1, search |-> 2,
          llm |-> 0, top |-> <<>>, context |-> <<>>]
    ELSE Assembled(top, ContextForLlm(top), reply)

RagPipelineIgnoringEmbed(r, reply) ==
    IF ~r.text.ok THEN Raised(1, 1)
    ELSE IF ~r.pdf.ok THEN Raised(1, 2)
    ELSE Fused(TopResults(r.text.docs \o r.pdf.docs), reply)

\* rag_pipeline: what it returns ("list" is [], "str" a text, "raise" the
\* HTTPException of its except clause) and the calls it made
RagPipeline(r, reply) ==
    IF ~r.embedOk THEN Raised(1, 0)
    ELSE IF ~r.text.ok THEN Raised(1, 1)
    ELSE IF ~r.pdf.ok THEN Raised(1, 2)
    ELSE Fused(TopResults(r.text.docs \o r.pdf.docs), reply)

\* lookup and insert count the calls of find_similar_faq and add_faq, stored
\* the entries faq_collection.add wrote
NoCalls ==
    [embed |-> 0, search |-> 0, llm |-> 0, lookup |-> 0, insert |-> 0, stored |-> 0]

NoContext == [passages |-> <<>>, text |-> <<>>]

NoResponse == [op |-> "none", kind |-> "none", text |-> <<>>]

\* routers/search.py ai_search: AnswerResponse(text=final_answer), or HTTP 500
AiSearch ==
    /\ phase = "received"
    /\ \E reply \in LlmReplies :
        \E out \in {RagPipeline(req, reply)} :
            /\ resp' = [op |-> "ai_search",
                        kind |-> CASE out.kind = "raise" -> "error"
                                   [] out.kind = "list" -> "noanswer"
                                   [] out.kind = "str" -> "answer",
                        text |-> out.text]
            /\ calls' = [NoCalls EXCEPT !.embed = out.embed,
                                        !.search = out.search,
                                        !.llm = out.llm]
            /\ ctx' = [passages |-> out.top, text |-> out.context]
            /\ llm' = IF out.llm = 1 THEN reply ELSE NotCalled
    /\ phase' = "responded"
    /\ UNCHANGED <<cache, req>>

----------------------------------------------------------------------------
(* services/langchain_flow.py: the LangChain variant *)

InsufficientThai ==
    <<"U+0E02","U+0E2D","U+0E2D","U+0E20","U+0E31","U+0E22"," ","U+0E44",
      "U+0E21","U+0E48","U+0E21","U+0E35","U+0E02","U+0E49","U+0E2D","U+0E21",
      "U+0E39","U+0E25","U+0E40","U+0E1E","U+0E35","U+0E22","U+0E07","U+0E1E",
      "U+0E2D","U+0E43","U+0E19","U+0E40","U+0E2D","U+0E01","U+0E2A","U+0E32",
      "U+0E23","U+0E2A","U+0E33","U+0E2B","U+0E23","U+0E31","U+0E1A","U+0E04",
      "U+0E33","U+0E16","U+0E32","U+0E21","U+0E19","U+0E35","U+0E49">>

InsufficientEnglish ==
    <<"I"," ","d","o","n","'","t"," ","h","a","v","e"," ","s","u","f","f","i",
      "c","i","e","n","t"," ","i","n","f","o","r","m","a","t","i","o","n"," ",
      "i","n"," ","t","h","e"," ","d","o","c","u","m","e","n","t","s"," ","t",
      "o"," ","a","n","s","w","e","r"," ","t","h","i","s"," ","q","u","e","s",
      "t","i","o","n",".">>

GenerateErrorPrefix ==
    <<"[","E","r","r","o","r","]","[","g","e","n","e","r","a","t","e","_","a",
      "n","s","w","e","r","]"," ">>

DocSeparator ==
    <<"\n","\n","-","-","-"," ","D","o","c","u","m","e","n","t"," ","-","-",
      "-","\n","\n">>

SourcePrefix ==
    <<"S","o","u","r","c","e",":"," ">>

\* doc.metadata["source_index"] = <index name>; the configured name is one token
Tagged(docs, index) ==
    [i \in 1..Len(docs) |->
        [score |-> docs[i].score, content |-> docs[i].content, source_index |-> index]]

\* retrieve_and_rank: both retrievers, merged and sorted, or [] when either raises
RetrieveAndRank(r) ==
    IF ~r.pdf.ok \/ ~r.text.ok
    THEN <<>>
    ELSE Take(SortedByScore(Tagged(r.pdf.docs, "azure_search_index_doc")
                                \o Tagged(r.text.docs, "azure_search_index_txt")),
              TopK)

\* format_docs: "Source: <index>\n<page_content>" joined by the separator
RECURSIVE FormatDocs(_)
FormatDocs(docs) ==
    IF docs = <<>>
    THEN <<>>
    ELSE SourcePrefix \o <<Head(docs).source_index, "\n">> \o Head(docs).content
            \o (IF Len(docs) = 1 THEN <<>> ELSE DocSeparator \o FormatDocs(Tail(docs)))

\* generate_answer: always returns a text
GenerateAnswer ==
    /\ phase = "received"
    /\ \E reply \in LlmReplies :
        \E ranked \in {RetrieveAndRank(req)} :
        \E context \in {FormatDocs(ranked)} :
        \E called \in {Strip(context) # <<>>} :
            /\ resp' = [op |-> "generate_answer",
                        kind |-> "answer",
                        text |-> IF ~called
                                 THEN IF HasThai(req.question)
                                      THEN InsufficientThai
                                      ELSE InsufficientEnglish
                                 ELSE IF reply.ok
                                 THEN reply.raw
                                 ELSE GenerateErrorPrefix \o reply.raw]
            /\ calls' = [NoCalls EXCEPT !.search = IF req.pdf.ok THEN 2 ELSE 1,
                                        !.llm = IF called THEN 1 ELSE 0]
            /\ ctx' = [passages |-> ranked, text |-> context]
            /\ llm' = IF called THEN reply ELSE NotCalled
    /\ phase' = "responded"
    /\ UNCHANGED <<cache, req>>

----------------------------------------------------------------------------
(* One request, handled by one of the two question handlers *)

Init ==
    /\ cache = <<>>
    /\ req \in Requests
    /\ resp = NoResponse
    /\ calls = NoCalls
    /\ ctx = NoContext
    /\ llm = NotCalled
    /\ phase = "received"

Next == AiSearch \/ GenerateAnswer

Spec == Init /\ [][Next]_vars

----------------------------------------------------------------------------
(* Properties of the question handlers *)

Searched == req.embedOk /\ req.text.ok /\ req.pdf.ok

Combined == req.text.docs \o req.pdf.docs

Count(docs, p) == Cardinality({i \in 1..Len(docs) : docs[i] = p})

Min(a, b) == IF a < b THEN a ELSE b

\* C1: in rag_pipeline, when both indexes answer and no passage they return
\* has a score >= 0.5, the result is NoAnswer and the language model was not
\* called.
C1_NoPassageNoModelCall ==
    ( /\ resp.op = "ai_search"
      /\ Searched
      /\ \A i \in 1..Len(Combined) : Combined[i].score < ScoreThreshold )
    => /\ resp.kind = "noanswer"
       /\ calls.llm = 0

C1_Witness ==
    /\ resp.op = "ai_search"
    /\ Searched
    /\ Combined # <<>>
    /\ \A i \in 1..Len(Combined) : Combined[i].score < ScoreThreshold
    /\ resp.kind = "noanswer"

\* C2: whenever the raw output of the language model contains the token
\* NO_ANSWER_FOUND, with any text before or after it, /aisearch answers
\* NoAnswer.
C2_SentinelMeansNoAnswer ==
    ( /\ resp.op = "ai_search"
      /\ calls.llm = 1
      /\ llm.ok
      /\ Contains(llm.raw, Sentinel) )
    => resp.kind = "noanswer"

C2_Witness ==
    /\ resp.op = "ai_search"
    /\ calls.llm = 1
    /\ llm.ok
    /\ Contains(llm.raw, Sentinel)
    /\ Head(llm.raw) = "o"
    /\ llm.raw[Len(llm.raw)] = " "
    /\ resp.kind = "noanswer"

\* C3: the passages rag_pipeline puts in the context are the first 3 of the
\* passages with score >= 0.5 in descending score order, whichever index they
\* came from: as many as there are (at most 3), each one returned by an index
\* and at or above the threshold, in non-increasing score order, and no
\* passage left out scores higher than one that was kept.
C3_TopThreeByScore ==
    (resp.op = "ai_search" /\ Searched) =>
        LET top == ctx.passages
            good == {i \in 1..Len(Combined) : Combined[i].score >= ScoreThreshold}
        IN  /\ Len(top) = Min(TopN, Cardinality(good))
            /\ \A i \in 1..Len(top) :
                /\ top[i].score >= ScoreThreshold
                /\ Count(top, top[i]) <= Count(Combined, top[i])
                /\ i < Len(top) => top[i].score >= top[i + 1].score
                /\ Cardinality({j \in 1..Len(top) : top[j].score > top[i].score})
                     = Min(TopN, Cardinality({j \in good :
                                    Combined[j].score > top[i].score}))

\* the case of the specification: 0.9 and 0.7 from one index, 0.6 and 0.3
\* from the other
C3_Witness ==
    /\ resp.op = "ai_search"
    /\ Searched
    /\ req.text.docs = <<Passage(6, ContentA), Passage(3, ContentB)>>
    /\ req.pdf.docs = <<Passage(9, ContentA), Passage(7, ContentB)>>
    /\ ctx.passages = <<Passage(9, ContentA), Passage(7, ContentB), Passage(6, ContentA)>>

OneIndexFailed == req.embedOk /\ (req.text.ok # req.pdf.ok)

Healthy == IF req.text.ok THEN req.text.docs ELSE req.pdf.docs

\* C4: if the search of one index raises while the other returns passages
\* above the threshold, the fused context is what the healthy index alone
\* gives and the caller sees no failure.
C4_PartialFailureTolerated ==
    ( /\ resp.op = "ai_search"
      /\ OneIndexFailed
      /\ \E i \in 1..Len(Healthy) : Healthy[i].score >= ScoreThreshold )
    => /\ resp.kind # "error"
       /\ ctx.passages = TopResults(Healthy)

\* C5: if the search of every index fails, the query ends as a failure, not
\* as NoAnswer or an answer text, and the language model is not called.
C5_TotalFailureIsAnError ==
    ( /\ resp.op \in {"ai_search", "generate_answer"}
      /\ req.embedOk
      /\ ~req.text.ok
      /\ ~req.pdf.ok )
    => /\ resp.kind = "error"
       /\ calls.llm = 0

\* C6: if the call of the language model throws, the query ends as a failure:
\* it is neither NoAnswer nor an answer text.
C6_ModelFailureIsAnError ==
    ( /\ resp.op \in {"ai_search", "generate_answer"}
      /\ calls.llm = 1
      /\ ~llm.ok )
    => resp.kind = "error"

----------------------------------------------------------------------------
(* test2.py: the FAQ cache in ChromaDB *)

\* The questions put to the cache
AllQuestions == <<QuestionEnglish, QuestionLong, QuestionThai>>

CacheQuestions == { AllQuestions[i] : i \in 1..MaxQuestions }

Entry(question, answer) == [id |-> question, question |-> question, answer |-> answer]

\* faq_collection.get(ids=[question])["ids"]
Existing(c, question) == {i \in 1..Len(c) : c[i].id = question}

AddFaqUnchecked(c, question, answer, ok) ==
    IF ~ok
    THEN [cache |-> c, added |-> FALSE]
    ELSE [cache |-> Append(c, Entry(question, answer)), added |-> TRUE]

AddFaqNothing(c, question, answer, ok) == [cache |-> c, added |-> FALSE]

\* add_faq: False when the question is already stored or the backend raises,
\* otherwise the entry is added and True returned
AddFaq(c, question, answer, ok) ==
    IF ~ok
    THEN [cache |-> c, added |-> FALSE]
    ELSE IF Existing(c, question) # {}
    THEN [cache |-> c, added |-> FALSE]
    ELSE [cache |-> Append(c, Entry(question, answer)), added |-> TRUE]

\* get_threshold_by_length with the default table, in thousandths
ThresholdByLength(text) ==
    LET length == WordCount(text)
    IN  IF 0 <= length /\ length <= 5 THEN 750
        ELSE IF 6 <= length /\ length <= 15 THEN 800
        ELSE IF 16 <= length /\ length <= 1000 THEN 850
        ELSE 650

\* threshold = (thr_user + thr_db) / 2
MeanThreshold(question, matched) ==
    (ThresholdByLength(question) + ThresholdByLength(matched)) \div 2

None == [found |-> FALSE, answer |-> <<>>]

FindSimilarFaqStrict(c, question, f) ==
    IF ~f.lookupOk \/ c = <<>> \/ f.similarity < -1000 \/ f.similarity > 1000
    THEN None
    ELSE IF f.similarity > MeanThreshold(question, c[f.nearest].question)
    THEN [found |-> TRUE, answer |-> c[f.nearest].answer]
    ELSE None

\* a find_similar_faq that compares with the threshold of the user question
\* alone
FindSimilarFaqOwnThreshold(c, question, f) ==
    IF ~f.lookupOk \/ c = <<>> \/ f.similarity < -1000 \/ f.similarity > 1000
    THEN None
    ELSE IF f.similarity >= ThresholdByLength(question)
    THEN [found |-> TRUE, answer |-> c[f.nearest].answer]
    ELSE None

FindSimilarFaqFailing(c, question, f) ==
    IF ~f.lookupOk
    THEN [found |-> TRUE, answer |-> <<"E","r","r","o","r">>]
    ELSE IF c = <<>>
    THEN None
    ELSE IF f.similarity < -1000 \/ f.similarity > 1000
    THEN None
    ELSE IF f.similarity >= MeanThreshold(question, c[f.nearest].question)
    THEN [found |-> TRUE, answer |-> c[f.nearest].answer]
    ELSE None

\* find_similar_faq: the answer of the nearest entry when the similarity is in
\* [-1, 1] and reaches the threshold, otherwise None; an exception gives None
FindSimilarFaq(c, question, f) ==
    IF ~f.lookupOk
    THEN None
    ELSE IF c = <<>>
    THEN None
    ELSE IF f.similarity < -1000 \/ f.similarity > 1000
    THEN None
    ELSE IF f.similarity >= MeanThreshold(question, c[f.nearest].question)
    THEN [found |-> TRUE, answer |-> c[f.nearest].answer]
    ELSE None

\* Cosine similarities, in thousandths; util.cos_sim computes in float32, so a
\* vector compared with itself can come out just above 1
Similarities == {-1001, 300, 774, 775, 799, 800, 960, 1000, 1001}

\* What ChromaDB and the encoder give for a lookup: nothing from an empty
\* collection or a failing backend; the entry of the very same question, at
\* similarity 1 up to rounding, when there is one; otherwise any entry at any
\* similarity
Lookups(c, question) ==
    { [lookupOk |-> FALSE, nearest |-> 0, similarity |-> 0] }
    \cup
    IF c = <<>>
    THEN { [lookupOk |-> TRUE, nearest |-> 0, similarity |-> 0] }
    ELSE IF Existing(c, question) # {}
    THEN { [lookupOk |-> TRUE, nearest |-> i, similarity |-> s] :
            i \in Existing(c, question), s \in {1000, 1001} }
    ELSE { [lookupOk |-> TRUE, nearest |-> i, similarity |-> s] :
            i \in 1..Len(c), s \in Similarities }

FaqOf(look, insertOk, answer) ==
    [lookupOk |-> look.lookupOk, insertOk |-> insertOk, nearest |-> look.nearest,
     similarity |-> look.similarity, answer |-> answer]

CacheRequest(question, faq) ==
    [question |-> question, embedOk |-> TRUE, text |-> NoDocs, pdf |-> NoDocs,
     faq |-> faq]

CacheAnswers == { <<"R","A","G">>, <<"o","k"," ","R","A","G">> }

\* a call of add_faq(question, answer)
AddFaqCall ==
    /\ \E question \in CacheQuestions, answer \in CacheAnswers, ok \in BOOLEAN :
       \E out \in {AddFaq(cache, question, answer, ok)} :
            /\ req' = CacheRequest(question, FaqOf(NoFaq, ok, answer))
            /\ cache' = out.cache
            /\ resp' = [op |-> "add_faq",
                        kind |-> IF out.added THEN "True" ELSE "False",
                        text |-> <<>>]
            /\ calls' = [NoCalls EXCEPT !.insert = 1,
                                        !.stored = IF out.added THEN 1 ELSE 0]
    /\ phase' = "responded"
    /\ UNCHANGED <<ctx, llm>>

\* a call of find_similar_faq(user_question)
FindSimilarFaqCall ==
    /\ \E question \in CacheQuestions :
       \E look \in Lookups(cache, question) :
       \E out \in {FindSimilarFaq(cache, question, look)} :
            /\ req' = CacheRequest(question, FaqOf(look, TRUE, <<>>))
            /\ resp' = [op |-> "find_similar_faq",
                        kind |-> IF out.found THEN "answer" ELSE "None",
                        text |-> out.answer]
            /\ calls' = [NoCalls EXCEPT !.lookup = 1]
    /\ phase' = "responded"
    /\ UNCHANGED <<cache, ctx, llm>>

CacheInit ==
    /\ cache = <<>>
    /\ req = CacheRequest(QuestionEnglish, NoFaq)
    /\ resp = NoResponse
    /\ calls = NoCalls
    /\ ctx = NoContext
    /\ llm = NotCalled
    /\ phase = "idle"

CacheNext == AddFaqCall \/ FindSimilarFaqCall

CacheSpec == CacheInit /\ [][CacheNext]_vars

----------------------------------------------------------------------------
(* get_response_with_fallback, the cache gate of /aisearch_v2           *)
(* (ai_search_main.py imports it from services/qa_engine.py, which does *)
(* not define it): modelled from section 4.3 of the specification over  *)
(* find_similar_faq, rag_pipeline and add_faq as the code has them.     *)

\* What the search indexes answer in the gate's runs: one passage above the
\* threshold from the text index and none from the other, one passage below
\* the threshold, a failing text index, a failing embedding call
GateRetrievals ==
    { [embedOk |-> TRUE,
       text |-> [ok |-> TRUE, docs |-> <<Passage(9, ContentA)>>], pdf |-> NoDocs],
      [embedOk |-> TRUE,
       text |-> NoDocs, pdf |-> [ok |-> TRUE, docs |-> <<Passage(3, ContentB)>>]],
      [embedOk |-> TRUE,
       text |-> [ok |-> FALSE, docs |-> <<>>],
       pdf |-> [ok |-> TRUE, docs |-> <<Passage(7, ContentB)>>]],
      [embedOk |-> FALSE, text |-> NoDocs, pdf |-> NoDocs] }

GateLlmReplies ==
    { [ok |-> TRUE, raw |-> <<"R","A","G">>],
      [ok |-> TRUE, raw |-> <<"o","k"," ","R","A","G">>],
      [ok |-> TRUE, raw |-> <<"o","k"," ">> \o Sentinel],
      [ok |-> FALSE, raw |-> <<"4","2","9">>] }

\* CACHE_HIT: the cached answer is returned; no fusion, no generation
GateHit(found) ==
    [kind |-> "answer", text |-> found.answer, cache |-> cache,
     calls |-> [NoCalls EXCEPT !.lookup = 1],
     ctx |-> NoContext, llm |-> NotCalled]

\* CACHE_MISS -> RUN_PIPELINE: an error propagates, NoAnswer is returned
\* without a write, an answer is written to the cache and returned
GateMiss(out, wrote, reply) ==
    [kind |-> CASE out.kind = "raise" -> "error"
                [] out.kind = "list" -> "noanswer"
                [] out.kind = "str" -> "answer",
     text |-> out.text,
     cache |-> IF out.kind = "str" THEN wrote.cache ELSE cache,
     calls |-> [embed |-> out.embed, search |-> out.search, llm |-> out.llm,
                lookup |-> 1,
                insert |-> IF out.kind = "str" THEN 1 ELSE 0,
                stored |-> IF out.kind = "str" /\ wrote.added THEN 1 ELSE 0],
     ctx |-> [passages |-> out.top, text |-> out.context],
     llm |-> IF out.llm = 1 THEN reply ELSE NotCalled]

GatePipeline(r, reply, out) ==
    GateMiss(out, AddFaq(cache, r.question, out.text, r.faq.insertOk), reply)

\* START -> CACHE_LOOKUP -> CACHE_HIT | CACHE_MISS
GetResponseWithFallback(r, reply) ==
    IF FindSimilarFaq(cache, r.question, r.faq).found
    THEN GateHit(FindSimilarFaq(cache, r.question, r.faq))
    ELSE GatePipeline(r, reply, RagPipeline(r, reply))

\* one question put to the gate
AskQuestionV2 ==
    /\ phase = "idle"
    /\ \E question \in CacheQuestions, g \in GateRetrievals, insertOk \in BOOLEAN :
       \E look \in Lookups(cache, question) :
       \E r \in {[question |-> question, embedOk |-> g.embedOk, text |-> g.text,
                  pdf |-> g.pdf, faq |-> FaqOf(look, insertOk, <<>>)]} :
       \E reply \in GateLlmReplies :
       \E out \in {GetResponseWithFallback(r, reply)} :
            /\ req' = r
            /\ resp' = [op |-> "gate", kind |-> out.kind, text |-> out.text]
            /\ cache' = out.cache
            /\ calls' = out.calls
            /\ ctx' = out.ctx
            /\ llm' = out.llm
    /\ phase' = "responded"

\* the request is over: nothing of it is kept but the cache
Finish ==
    /\ phase = "responded"
    /\ phase' = "idle"
    /\ req' = CacheRequest(QuestionEnglish, NoFaq)
    /\ resp' = NoResponse
    /\ calls' = NoCalls
    /\ ctx' = NoContext
    /\ llm' = NotCalled
    /\ UNCHANGED cache

GateNext == AskQuestionV2 \/ Finish

GateSpec == CacheInit /\ [][GateNext]_vars

----------------------------------------------------------------------------
(* Properties of the cache and of the gate *)

Asked == resp.op = "gate"

\* the lookup found a nearest entry whose similarity reaches the threshold
\* that applies to the question and the matched question
SimilarEnough ==
    /\ req.faq.lookupOk
    /\ req.faq.nearest > 0
    /\ req.faq.similarity >=
            MeanThreshold(req.question, cache[req.faq.nearest].question)

ServedFromCache ==
    /\ resp.kind = "answer"
    /\ resp.text = cache[req.faq.nearest].answer
    /\ calls.embed = 0
    /\ calls.search = 0
    /\ calls.llm = 0

\* C7 as stated: whenever the similarity of the nearest cached entry is >= the
\* threshold, the gate returns the cached answer and neither retrieval nor the
\* language model is invoked.
C7_SimilarEnoughIsServed == (Asked /\ SimilarEnough) => ServedFromCache

\* C7, amended: whenever the similarity of the nearest cached entry is >= the
\* threshold and lies in [-1, 1], the gate returns the cached answer and
\* neither retrieval nor the language model is invoked.
C7_SimilarInRangeIsServed ==
    (Asked /\ SimilarEnough /\ req.faq.similarity <= 1000) => ServedFromCache

\* similarity 0.96 against a threshold of 0.775
C7_Witness ==
    /\ Asked
    /\ SimilarEnough
    /\ req.faq.similarity = 960
    /\ ServedFromCache

\* the synthesis of this query succeeded: the model was called, did not throw,
\* and its output was an answer
Synthesized ==
    /\ calls.llm = 1
    /\ llm.ok
    /\ resp.kind = "answer"

HasEntry == Existing(cache, req.question) # {}

C10_InsertOnce ==
    [][ /\ \A i \in 1..Len(cache) : i <= Len(cache') /\ cache'[i] = cache[i]
        /\ \A i, j \in 1..Len(cache') : cache'[i].id = cache'[j].id => i = j
        /\ (resp'.op = "add_faq" /\ resp'.kind = "True")
              => cache' = Append(cache, Entry(req'.question, req'.faq.answer)) ]_vars

\* a second add_faq of a stored question with another answer returned False
\* and left the first answer in place
C10_Witness ==
    /\ resp.op = "add_faq"
    /\ resp.kind = "False"
    /\ req.faq.insertOk
    /\ \E i \in 1..Len(cache) :
        /\ cache[i].id = req.question
        /\ cache[i].answer # req.faq.answer

----------------------------------------------------------------------------
(* The same question put to the gate twice in sequence *)

\* the question just answered is asked again: the same question, the same
\* index results and the same model response; the cache backend answers the
\* lookup and the insert of the second run as it then does
AskQuestionV2Again ==
    /\ phase = "responded"
    /\ resp.op = "gate"
    /\ \E insertOk \in BOOLEAN :
       \E look \in Lookups(cache, req.question) :
       \E r \in {[req EXCEPT !.faq = FaqOf(look, insertOk, <<>>)]} :
       \E reply \in {x \in GateLlmReplies : calls.llm = 1 => x = llm} :
       \E out \in {GetResponseWithFallback(r, reply)} :
            /\ req' = r
            /\ resp' = [op |-> "gate", kind |-> out.kind, text |-> out.text]
            /\ cache' = out.cache
            /\ calls' = out.calls
            /\ ctx' = out.ctx
            /\ llm' = out.llm
    /\ phase' = "repeated"

TwiceNext == AskQuestionV2 \/ AskQuestionV2Again \/ Finish

TwiceSpec == CacheInit /\ [][TwiceNext]_vars

\* the step is the second of two runs, the first of which began with an empty
\* cache (all the cache holds is what the first run stored)
SecondRun ==
    /\ phase = "responded"
    /\ phase' = "repeated"
    /\ Len(cache) = calls.stored

----------------------------------------------------------------------------
(* Errors of the cache backend *)

\* what rag_pipeline gives for the request on its own
PipelineAlone == RagPipeline(req, llm)

ResultOfPipeline ==
    /\ calls.embed = 1
    /\ resp.kind = (CASE PipelineAlone.kind = "raise" -> "error"
                      [] PipelineAlone.kind = "list" -> "noanswer"
                      [] PipelineAlone.kind = "str" -> "answer")
    /\ resp.text = PipelineAlone.text

\* C12: an exception during the cache lookup is a miss, after which the
\* pipeline runs and its result is returned; an exception during the cache
\* write is discarded and the generated answer is returned; the caller sees a
\* failure only when the pipeline itself raised, never because of the cache.
C12_CacheErrorsSwallowed ==
    Asked =>
        /\ ~req.faq.lookupOk => (calls.lookup = 1 /\ ResultOfPipeline)
        /\ (calls.insert = 1 /\ ~req.faq.insertOk)
              => /\ resp.kind = "answer"
                 /\ resp.text = PipelineAlone.text
                 /\ calls.stored = 0
        /\ resp.kind = "error" => PipelineAlone.kind = "raise"

\* the lookup raised, the pipeline answered, the write raised, and the answer
\* was returned
C12_Witness ==
    /\ Asked
    /\ ~req.faq.lookupOk
    /\ ~req.faq.insertOk
    /\ calls.llm = 1
    /\ llm.ok
    /\ calls.insert = 1
    /\ resp.kind = "answer"
    /\ resp.text = Strip(llm.raw)

----------------------------------------------------------------------------
(* services/utils.py: remove_citation_markers *)

\* \d of a str pattern: a Unicode decimal digit (0-9, and among others the
\* Thai digits U+0E50 to U+0E59)
IsDigit(c) ==
    \E p \in {CodePoint(c)} :
        \/ (48 <= p /\ p <= 57)
        \/ (3664 <= p /\ p <= 3673)

MarkerOpen == <<"[","d","o","c">>

\* the first position from j on that holds no digit
RECURSIVE DigitsEnd(_, _)
DigitsEnd(text, j) ==
    IF j <= Len(text) /\ IsDigit(text[j]) THEN DigitsEnd(text, j + 1) ELSE j

MatchEndOneDigit(text, i) ==
    IF /\ i + 5 <= Len(text)
       /\ SubSeq(text, i, i + 3) = MarkerOpen
       /\ IsDigit(text[i + 4])
       /\ text[i + 5] = "]"
    THEN i + 5
    ELSE 0

\* where the match of \[doc\d+\] that starts at position i ends, 0 when the
\* pattern does not match there
MatchEnd(text, i) ==
    IF i + 3 <= Len(text) /\ SubSeq(text, i, i + 3) = MarkerOpen
    THEN LET j == DigitsEnd(text, i + 4)
         IN  IF j > i + 4 /\ j <= Len(text) /\ text[j] = "]" THEN j ELSE 0
    ELSE 0

\* re.sub scans from the left: a match is dropped and the scan goes on after
\* it, any other character is copied
RECURSIVE SubFrom(_, _)
SubFrom(text, i) ==
    IF i > Len(text)
    THEN <<>>
    ELSE IF MatchEnd(text, i) > 0
    THEN SubFrom(text, MatchEnd(text, i) + 1)
    ELSE <<text[i]>> \o SubFrom(text, i + 1)

\* re.sub(r"\[doc\d+\]", "", text)
RemoveCitationMarkers(text) == SubFrom(text, 1)

\* The texts cleaned: put together from at most MaxPieces pieces, and the
\* example of the specification
Pieces ==
    { <<"[","d","o","c","1","]">>,
      <<"[","d","o","c","2","3","]">>,
      <<"[","d","o","c","U+0E51","]">>,
      <<"[","d","o","c","]">>,
      <<"[","d","o","c">>,
      <<"1","]">>,
      <<"X"," ">>,
      <<"[","D","o","c","1","]">>,
      <<"[","d","o","c","1","a","]">>,
      <<".">> }

RECURSIVE Pieced(_)
Pieced(n) ==
    IF n = 0
    THEN { <<>> }
    ELSE Pieced(n - 1) \cup { t \o p : t \in Pieced(n - 1), p \in Pieces }

ExampleRaw ==
    <<"T","h","e"," ","a","n","s","w","e","r"," ","i","s"," ","X"," ","[","d",
      "o","c","1","]","."," ","S","e","e"," ","a","l","s","o"," ","[","d","o",
      "c","2","3","]",".">>

ExampleCleaned ==
    <<"T","h","e"," ","a","n","s","w","e","r"," ","i","s"," ","X"," ","."," ",
      "S","e","e"," ","a","l","s","o"," ",".">>

RawTexts == Pieced(MaxPieces) \cup {ExampleRaw}

\* a call of remove_citation_markers(text)
RemoveCitationMarkersCall ==
    /\ phase = "received"
    /\ resp' = [op |-> "remove_citation_markers", kind |-> "str",
                text |-> RemoveCitationMarkers(req.text)]
    /\ phase' = "responded"
    /\ UNCHANGED <<cache, req, calls, ctx, llm>>

\* remove_citation_markers called on the text it returned
RemoveCitationMarkersAgain ==
    /\ phase = "responded"
    /\ resp.op = "remove_citation_markers"
    /\ resp' = [op |-> "remove_citation_markers twice", kind |-> "str",
                text |-> RemoveCitationMarkers(resp.text)]
    /\ phase' = "repeated"
    /\ UNCHANGED <<cache, req, calls, ctx, llm>>

StripInit ==
    /\ cache = <<>>
    /\ req \in { [text |-> t] : t \in RawTexts }
    /\ resp = NoResponse
    /\ calls = NoCalls
    /\ ctx = NoContext
    /\ llm = NotCalled
    /\ phase = "received"

StripNext == RemoveCitationMarkersCall \/ RemoveCitationMarkersAgain

StripSpec == StripInit /\ [][StripNext]_vars

\* s is a marker: [doc, one or more digits, ]
IsMarker(s) ==
    /\ Len(s) >= 6
    /\ SubSeq(s, 1, 4) = MarkerOpen
    /\ s[Len(s)] = "]"
    /\ \A k \in 5..(Len(s) - 1) : IsDigit(s[k])

\* the positions of text that lie inside an occurrence of a marker
InMarker(text) ==
    { k \in 1..Len(text) :
        \E i \in 1..k : \E j \in k..Len(text) : IsMarker(SubSeq(text, i, j)) }

\* the characters of text at the positions in keep, in their order
Restricted(text, keep) ==
    [n \in 1..Cardinality(keep) |->
        text[CHOOSE k \in keep : Cardinality({m \in keep : m < k}) = n - 1]]

Cleaned == resp.op = "remove_citation_markers"

\* C13: the result of remove_citation_markers is the text without the
\* characters of its occurrences of [doc<one or more digits>]: every other
\* character is kept, unchanged and in its original order; the example text
\* of the specification becomes "The answer is X . See also .".
C13_MarkersRemovedRestKept ==
    Cleaned =>
        /\ resp.text = Restricted(req.text, (1..Len(req.text)) \ InMarker(req.text))
        /\ req.text = ExampleRaw => resp.text = ExampleCleaned

C13_Witness ==
    /\ Cleaned
    /\ req.text = ExampleRaw
    /\ resp.text = ExampleCleaned

----------------------------------------------------------------------------
(* Properties of the question handlers: the question and its embedding *)

\* C14: an empty question text is rejected before any external call: the
\* caller gets a failure, and no embedding, index-search, language-model or
\* cache call was made for it.
C14_EmptyQuestionRejected ==
    (resp.op \in {"ai_search", "generate_answer"} /\ req.question = QuestionEmpty)
    => /\ resp.kind = "error"
       /\ calls = NoCalls

\* C15: when the embedding call of a query fails, the caller gets a failure,
\* and the query made no index search, no language-model call and no cache
\* write.
C15_EmbeddingFailureAborts ==
    (calls.embed = 1 /\ ~req.embedOk)
    => /\ resp.kind = "error"
       /\ calls.search = 0
       /\ calls.llm = 0
       /\ calls.insert = 0
       /\ calls.stored = 0
       /\ ctx = NoContext

C15_Witness ==
    /\ resp.op = "ai_search"
    /\ req.question = QuestionEnglish
    /\ calls.embed = 1
    /\ ~req.embedOk
    /\ resp.kind = "error"

----------------------------------------------------------------------------
(* Queries in flight together.  Each query is its own invocation of the    *)
(* gate and of rag_pipeline and goes through the statements in their       *)
(* order, one external call per step; the steps of different queries       *)
(* interleave freely.  Here req, resp, calls, ctx, llm and phase hold one  *)
(* value per query (the locals of its invocation); cache is the one        *)
(* faq_collection.  An external call that fails here fails by timing out.  *)

Queries == 1..MaxQueries

\* what the two indexes and the language model answer to query p when they
\* answer
TextDocsOf(p) ==
    IF p % 2 = 1
    THEN <<Passage(9, ContentA)>>
    ELSE <<Passage(6, ContentA), Passage(3, ContentB)>>

PdfDocsOf(p) == IF p % 2 = 1 THEN <<Passage(7, ContentB)>> ELSE <<>>

ReplyOf(p) ==
    IF p % 2 = 1
    THEN [ok |-> TRUE, raw |-> <<"R","A","G">>]
    ELSE [ok |-> TRUE, raw |-> <<"o","k"," ","R","A","G","\n">>]

\* the call of the language model raises a timeout
TimedOut == [ok |-> FALSE, raw |-> <<"t","i","m","e","d"," ","o","u","t">>]

Failed == [ok |-> FALSE, docs |-> <<>>]

\* timeout names the external call of the query that timed out
FlowRequest ==
    [question |-> QuestionEnglish, embedOk |-> TRUE, text |-> NoDocs,
     pdf |-> NoDocs, faq |-> NoFaq, timeout |-> "none"]

\* added is what add_faq returned to the query
FlowNoResponse == [op |-> "none", kind |-> "none", text |-> <<>>, added |-> FALSE]

FlowResponse(kind, text) == [op |-> "gate", kind |-> kind, text |-> text, added |-> FALSE]

OwnShared(locals, p) == locals[1]

\* the locals of invocation p
Own(locals, p) == locals[p]

StepAfterSkippingPdf(step) ==
    CASE step = "lookup" -> "embed"
      [] step = "embed" -> "text"
      [] step = "text" -> "fuse"
      [] step = "pdf" -> "fuse"
      [] step = "fuse" -> "llm"
      [] step = "llm" -> "check"
      [] step = "check" -> "add"

\* the statement order of the gate (lookup, pipeline, write), of rag_pipeline
\* (embed_query, the text search, the pdf search, the fusion, get_llm_answer)
\* and of add_faq (the existence check, the insert)
StepAfter(step) ==
    CASE step = "lookup" -> "embed"
      [] step = "embed" -> "text"
      [] step = "text" -> "pdf"
      [] step = "pdf" -> "fuse"
      [] step = "fuse" -> "llm"
      [] step = "llm" -> "check"
      [] step = "check" -> "add"

\* what the lookup of a query finds: nothing in an empty collection, the entry
\* of the very same question at similarity 1, otherwise an entry of another
\* question at similarity 0.3
FlowLookup(c, question) ==
    IF c = <<>>
    THEN [lookupOk |-> TRUE, nearest |-> 0, similarity |-> 0]
    ELSE IF Existing(c, question) # {}
    THEN [lookupOk |-> TRUE, similarity |-> 1000,
          nearest |-> CHOOSE i \in Existing(c, question) : TRUE]
    ELSE [lookupOk |-> TRUE, nearest |-> 1, similarity |-> 300]

\* START -> CACHE_LOOKUP: a question arrives and find_similar_faq is called
FlowLookupStep(p) ==
    /\ phase[p] = "idle"
    /\ \E question \in CacheQuestions :
       \E look \in {FlowLookup(cache, question)} :
       \E found \in {FindSimilarFaq(cache, question, look)} :
            /\ req' = [req EXCEPT ![p] = [FlowRequest EXCEPT
                            !.question = question,
                            !.faq = FaqOf(look, TRUE, <<>>)]]
            /\ calls' = [calls EXCEPT ![p].lookup = 1]
            /\ resp' = [resp EXCEPT ![p] =
                            IF found.found
                            THEN FlowResponse("answer", found.answer)
                            ELSE @]
            /\ phase' = [phase EXCEPT ![p] =
                            IF found.found THEN "done" ELSE StepAfter("lookup")]
    /\ UNCHANGED <<cache, ctx, llm>>

\* question_emb = embeddings.embed_query(question)
EmbedStep(p) ==
    /\ phase[p] = "embed"
    /\ \E ok \in BOOLEAN :
        /\ req' = [req EXCEPT ![p].embedOk = ok,
                              ![p].timeout = IF ok THEN @ ELSE "embed"]
        /\ resp' = [resp EXCEPT ![p] = IF ok THEN @ ELSE FlowResponse("error", <<>>)]
        /\ phase' = [phase EXCEPT ![p] = IF ok THEN StepAfter("embed") ELSE "done"]
    /\ calls' = [calls EXCEPT ![p].embed = 1]
    /\ UNCHANGED <<cache, ctx, llm>>

\* the text index is searched and its results are read
SearchTextStep(p) ==
    /\ phase[p] = "text"
    /\ \E ok \in BOOLEAN :
        /\ req' = [req EXCEPT ![p].text =
                            IF ok THEN [ok |-> TRUE, docs |-> TextDocsOf(p)] ELSE Failed,
                              ![p].timeout = IF ok THEN @ ELSE "text"]
        /\ resp' = [resp EXCEPT ![p] = IF ok THEN @ ELSE FlowResponse("error", <<>>)]
        /\ phase' = [phase EXCEPT ![p] = IF ok THEN StepAfter("text") ELSE "done"]
    /\ calls' = [calls EXCEPT ![p].search = @ + 1]
    /\ UNCHANGED <<cache, ctx, llm>>

\* the pdf index is searched and its results are read
SearchPdfStep(p) ==
    /\ phase[p] = "pdf"
    /\ \E ok \in BOOLEAN :
        /\ req' = [req EXCEPT ![p].pdf =
                            IF ok THEN [ok |-> TRUE, docs |-> PdfDocsOf(p)] ELSE Failed,
                              ![p].timeout = IF ok THEN @ ELSE "pdf"]
        /\ resp' = [resp EXCEPT ![p] = IF ok THEN @ ELSE FlowResponse("error", <<>>)]
        /\ phase' = [phase EXCEPT ![p] = IF ok THEN StepAfter("pdf") ELSE "done"]
    /\ calls' = [calls EXCEPT ![p].search = @ + 1]
    /\ UNCHANGED <<cache, ctx, llm>>

\* steps 2 and 3 of rag_pipeline: combine, sort, select, assemble the context
FuseStep(p) ==
    /\ phase[p] = "fuse"
    /\ \E top \in {TopResults(Own(req, p).text.docs \o Own(req, p).pdf.docs)} :
        /\ ctx' = [ctx EXCEPT ![p] = [passages |-> top, text |-> ContextForLlm(top)]]
        /\ resp' = [resp EXCEPT ![p] =
                        IF top = <<>> THEN FlowResponse("noanswer", <<>>) ELSE @]
        /\ phase' = [phase EXCEPT ![p] =
                        IF top = <<>> THEN "done" ELSE StepAfter("fuse")]
    /\ UNCHANGED <<cache, req, calls, llm>>

\* step 4 of rag_pipeline: get_llm_answer on the context of the query
LlmStep(p) ==
    /\ phase[p] = "llm"
    /\ \E reply \in {ReplyOf(p), TimedOut} :
       \E final \in {GetLlmAnswer(Own(ctx, p).text, reply)} :
            /\ llm' = [llm EXCEPT ![p] = IF final.llm = 1 THEN reply ELSE @]
            /\ calls' = [calls EXCEPT ![p].llm = final.llm]
            /\ req' = [req EXCEPT ![p].timeout =
                            IF final.llm = 1 /\ ~reply.ok THEN "llm" ELSE @]
            /\ resp' = [resp EXCEPT ![p] =
                            IF final.kind = "str"
                            THEN FlowResponse("answer", final.text)
                            ELSE FlowResponse("noanswer", <<>>)]
            /\ phase' = [phase EXCEPT ![p] =
                            IF final.kind = "str" THEN StepAfter("llm") ELSE "done"]
    /\ UNCHANGED <<cache, ctx>>

\* add_faq, first half: existing = faq_collection.get(ids=[question])
AddFaqCheckStep(p) ==
    /\ phase[p] = "check"
    /\ calls' = [calls EXCEPT ![p].insert = 1]
    /\ phase' = [phase EXCEPT ![p] =
                    IF Existing(cache, req[p].question) # {}
                    THEN "done"
                    ELSE StepAfter("check")]
    /\ UNCHANGED <<cache, req, resp, ctx, llm>>

\* add_faq, second half: faq_collection.add(ids=[question], ...).  The id may
\* have been added since the get: ChromaDB then ignores the add without an
\* exception (add_faq returns True) or, in versions that check ids, raises
\* (add_faq returns False)
AddFaqAddStep(p) ==
    /\ phase[p] = "add"
    /\ \E raises \in BOOLEAN :
        /\ raises => Existing(cache, req[p].question) # {}
        /\ cache' = IF Existing(cache, req[p].question) = {}
                    THEN Append(cache, Entry(req[p].question, resp[p].text))
                    ELSE cache
        /\ calls' = [calls EXCEPT ![p].stored =
                        IF Existing(cache, req[p].question) = {} THEN 1 ELSE 0]
        /\ resp' = [resp EXCEPT ![p].added = ~raises]
    /\ phase' = [phase EXCEPT ![p] = "done"]
    /\ UNCHANGED <<req, ctx, llm>>

FlowInit ==
    /\ cache = <<>>
    /\ req = [p \in Queries |-> FlowRequest]
    /\ resp = [p \in Queries |-> FlowNoResponse]
    /\ calls = [p \in Queries |-> NoCalls]
    /\ ctx = [p \in Queries |-> NoContext]
    /\ llm = [p \in Queries |-> NotCalled]
    /\ phase = [p \in Queries |-> "idle"]

FlowNext ==
    \E p \in Queries :
        \/ FlowLookupStep(p)
        \/ EmbedStep(p)
        \/ SearchTextStep(p)
        \/ SearchPdfStep(p)
        \/ FuseStep(p)
        \/ LlmStep(p)
        \/ AddFaqCheckStep(p)
        \/ AddFaqAddStep(p)

FlowSpec == FlowInit /\ [][FlowNext]_vars

----------------------------------------------------------------------------
(* Properties of queries in flight together *)

\* the writes of question that reported success
Successes(question) ==
    {p \in Queries : req[p].question = question /\ resp[p].added}

\* C16: when queries write the same question to the cache concurrently, then
\* under every interleaving the cache holds at most one entry for the
\* question and at most one of the writes reports success.
C16_ConcurrentWritesOneSuccess ==
    \A question \in CacheQuestions :
        /\ Cardinality(Existing(cache, question)) <= 1
        /\ Cardinality(Successes(question)) <= 1

\* the query missed the cache and its pipeline has run to its result
PipelineReturned(p) ==
    /\ calls[p].embed = 1
    /\ phase[p] \in {"check", "add", "done"}

\* C17: under every interleaving with other queries, a query that missed the
\* cache has read the index results given to it, the context it passed to the
\* model is the one rag_pipeline builds from these results, and its result is
\* what rag_pipeline returns for its own question, index results and model
\* output.
C17_QueriesAreIsolated ==
    \A p \in Queries :
        /\ phase[p] \in {"llm", "check", "add"} =>
                /\ req[p].text.docs = TextDocsOf(p)
                /\ req[p].pdf.docs = PdfDocsOf(p)
                /\ ctx[p].passages = TopResults(req[p].text.docs \o req[p].pdf.docs)
                /\ ctx[p].text = ContextForLlm(ctx[p].passages)
        /\ PipelineReturned(p) =>
                /\ resp[p].kind =
                        (CASE RagPipeline(req[p], llm[p]).kind = "raise" -> "error"
                           [] RagPipeline(req[p], llm[p]).kind = "list" -> "noanswer"
                           [] RagPipeline(req[p], llm[p]).kind = "str" -> "answer")
                /\ resp[p].text = RagPipeline(req[p], llm[p]).text
                /\ ctx[p].text = RagPipeline(req[p], llm[p]).context

\* query 1 has answered from its two passages while query 2, with another
\* question's passages, is at the call of the model
C17_Witness ==
    /\ phase[1] = "done"
    /\ calls[1].llm = 1
    /\ resp[1].kind = "answer"
    /\ resp[1].text = <<"R","A","G">>
    /\ ctx[1].passages = <<Passage(9, ContentA), Passage(7, ContentB)>>
    /\ phase[2] = "llm"
    /\ ctx[2].passages = <<Passage(6, ContentA)>>

C19_StepsInOrder ==
    [][ \A p \in Queries :
            /\ calls'[p].embed > calls[p].embed
                  => /\ calls[p].search = 0
                     /\ calls[p].llm = 0
            /\ calls'[p].search > calls[p].search
                  => /\ calls[p].embed = 1
                     /\ req[p].timeout = "none"
                     /\ calls[p].llm = 0
            /\ calls'[p].llm > calls[p].llm
                  => /\ calls[p].embed = 1
                     /\ calls[p].search = 2
                     /\ req[p].timeout = "none" ]_vars

\* a query has made its three kinds of call while another is between its two
\* index searches
C19_Witness ==
    \E p, o \in Queries :
        /\ calls[p].embed = 1
        /\ calls[p].search = 2
        /\ calls[p].llm = 1
        /\ llm[p].ok
        /\ phase[o] = "pdf"
        /\ calls[o].search = 1

----------------------------------------------------------------------------
(* The order of the two indexes in the fusion *)

\* no passage of one index has the score of a passage of the other
NoCrossTies ==
    \A i \in 1..Len(req.text.docs) : \A j \in 1..Len(req.pdf.docs) :
        req.text.docs[i].score # req.pdf.docs[j].score

\* what the handler would have selected with the two lists the other way
\* round: rag_pipeline combines text then pdf, retrieve_and_rank pdf then text
Swapped ==
    IF resp.op = "ai_search"
    THEN TopResults(req.pdf.docs \o req.text.docs)
    ELSE Take(SortedByScore(Tagged(req.text.docs, "azure_search_index_txt")
                                \o Tagged(req.pdf.docs, "azure_search_index_doc")),
              TopK)

Fusing == resp.op \in {"ai_search", "generate_answer"} /\ Searched

\* C20 as stated: for all result lists, equal scores across the indexes
\* included, swapping the two lists before ranking gives the same selected
\* passages in the same order.
C20_OrderOfIndexesIrrelevant == Fusing => ctx.passages = Swapped

\* C20, amended: when no passage of one index has the same score as a passage
\* of the other, swapping the two lists before ranking gives the same
\* selected passages in the same order.
C20_OrderIrrelevantWithoutTies == (Fusing /\ NoCrossTies) => ctx.passages = Swapped

\* 0.9 and 0.6 from the pdf index, 0.7 and 0.5 from the text index
C20_Witness ==
    /\ resp.op = "ai_search"
    /\ Searched
    /\ req.text.docs = <<Passage(7, ContentB), Passage(5, ContentA)>>
    /\ req.pdf.docs = <<Passage(9, ContentA), Passage(6, ContentA)>>
    /\ ctx.passages = <<Passage(9, ContentA), Passage(7, ContentB), Passage(6, ContentA)>>
    /\ ctx.passages = Swapped

----------------------------------------------------------------------------
(* Properties of the answer text *)

\* C21: every answer text that /aisearch returns to the caller is free of
\* citation markers [docN], whatever the model emitted.
C21_AnswersAreStripped ==
    (resp.op = "ai_search" /\ resp.kind = "answer") => InMarker(resp.text) = {}

\* C22: for every text, applying remove_citation_markers twice gives the same
\* text as applying it once.
C22_StripIsIdempotent ==
    resp.op = "remove_citation_markers twice"
        => resp.text = RemoveCitationMarkers(req.text)

----------------------------------------------------------------------------
(* fix_line_breaks as a function of the passage text *)

LinePieces ==
    { <<"a","\n","b">>, <<"\n">>, <<"\n","\n">>, <<" ">>, <<"b">> }

RECURSIVE Lined(_)
Lined(n) ==
    IF n = 0
    THEN { <<>> }
    ELSE Lined(n - 1) \cup { t \o p : t \in Lined(n - 1), p \in LinePieces }

PassageTexts == Lined(MaxPieces) \cup {ContentA, ContentB}

\* a call of fix_line_breaks(text)
FixLineBreaksCall ==
    /\ phase = "received"
    /\ resp' = [op |-> "fix_line_breaks", kind |-> "str",
                text |-> FixLineBreaks(req.text)]
    /\ phase' = "responded"
    /\ UNCHANGED <<cache, req, calls, ctx, llm>>

LinesInit ==
    /\ cache = <<>>
    /\ req \in { [text |-> t] : t \in PassageTexts }
    /\ resp = NoResponse
    /\ calls = NoCalls
    /\ ctx = NoContext
    /\ llm = NotCalled
    /\ phase = "received"

LinesNext == FixLineBreaksCall

LinesSpec == LinesInit /\ [][LinesNext]_vars

\* the newline at position i of s has no newline next to it
Single(s, i) ==
    /\ s[i] = "\n"
    /\ (i = 1 \/ s[i - 1] # "\n")
    /\ (i = Len(s) \/ s[i + 1] # "\n")

\* the positions of s that are not whitespace
Inked(s) == { i \in 1..Len(s) : s[i] \notin Whitespace }

\* C23 as stated, in what it says of newlines: the result has one space for
\* every single newline of the passage text at least, and its newlines are
\* those of the passage text that are part of a double line break.
C23_EverySingleNewlineBecomesSpace ==
    resp.op = "fix_line_breaks" =>
        /\ Cardinality({ i \in 1..Len(resp.text) : resp.text[i] = " " })
               >= Cardinality({ i \in 1..Len(req.text) : Single(req.text, i) })
        /\ Cardinality({ i \in 1..Len(resp.text) : resp.text[i] = "\n" })
               = Cardinality({ i \in 1..Len(req.text) :
                                  req.text[i] = "\n" /\ ~Single(req.text, i) })

\* C23: whitespace before the first and after the last non-whitespace
\* character of the passage text is removed; between them every single
\* newline becomes one space and every other character, the double line
\* breaks included, is kept.
C23_InnerSingleNewlinesBecomeSpaces ==
    resp.op = "fix_line_breaks" =>
        IF Inked(req.text) = {}
        THEN resp.text = <<>>
        ELSE LET a == CHOOSE i \in Inked(req.text) :
                          \A j \in Inked(req.text) : i <= j
                 b == CHOOSE i \in Inked(req.text) :
                          \A j \in Inked(req.text) : j <= i
             IN /\ Len(resp.text) = b - a + 1
                /\ \A k \in a..b :
                       resp.text[k - a + 1] =
                           IF Single(req.text, k) THEN " " ELSE req.text[k]

C23_Witness ==
    /\ resp.op = "fix_line_breaks"
    /\ req.text = <<"a","\n","b","\n","\n","b">>
    /\ resp.text = <<"a"," ","b","\n","\n","b">>

\* the model was called by /aisearch and gave an output
ModelAnswered == resp.op = "ai_search" /\ calls.llm = 1 /\ llm.ok

\* C24: a model output that is empty or all whitespace gives NoAnswer; an
\* output that has other characters and does not contain the sentinel is
\* returned as the answer, trimmed, and not as NoAnswer.
C24_BlankIsNoAnswerTextIsAnswer ==
    ModelAnswered =>
        IF \A i \in 1..Len(llm.raw) : llm.raw[i] \in Whitespace
        THEN resp.kind = "noanswer"
        ELSE ~Contains(llm.raw, Sentinel)
                 => resp.kind = "answer" /\ resp.text = Strip(llm.raw)

C24_Witness ==
    /\ ModelAnswered
    /\ llm.raw = <<"\n","R","A","G","\n">>
    /\ resp.kind = "answer"
    /\ resp.text = <<"R","A","G">>

\* C25: when generate_answer retrieves nothing, the language model is not
\* called and the text returned is the Thai message if some character of the
\* question lies in U+0E00..U+0E7F and the English message if none does.
C25_NoContextMessageByLanguage ==
    (resp.op = "generate_answer" /\ ctx.passages = <<>>) =>
        /\ calls.llm = 0
        /\ resp.text =
               IF \E i \in 1..Len(req.question) :
                      CodePoint(req.question[i]) \in 3584..3711
               THEN InsufficientThai
               ELSE InsufficientEnglish

C25_Witness ==
    /\ resp.op = "generate_answer"
    /\ ctx.passages = <<>>
    /\ req.question = QuestionThai
    /\ calls.llm = 0
    /\ resp.text = InsufficientThai

----------------------------------------------------------------------------
(* Properties of the assembled context *)

\* the place of the k-th combined passage in the ranking: one more than the
\* number of passages with a higher score, or the same score and combined
\* before it
Rank(k) ==
    1 + Cardinality({ m \in 1..Len(Combined) :
            \/ Combined[m].score > Combined[k].score
            \/ Combined[m].score = Combined[k].score /\ m < k })

\* C26: when a passage of the text index and a passage of the pdf index have
\* the same content, both clear the threshold and both rank within the top
\* N, both are in the context, each as an excerpt of its own.
C26_DuplicatesAreKept ==
    (resp.op = "ai_search" /\ Searched) =>
        \A i \in 1..Len(req.text.docs) :
            \A j \in (Len(req.text.docs) + 1)..Len(Combined) :
                ( /\ Combined[i].content = Combined[j].content
                  /\ Combined[i].score >= ScoreThreshold
                  /\ Combined[j].score >= ScoreThreshold
                  /\ Rank(i) <= TopN
                  /\ Rank(j) <= TopN )
                => /\ Len(ctx.passages) >= Rank(i)
                   /\ Len(ctx.passages) >= Rank(j)
                   /\ Rank(i) # Rank(j)
                   /\ ctx.passages[Rank(i)] = Combined[i]
                   /\ ctx.passages[Rank(j)] = Combined[j]

C26_Witness ==
    /\ resp.op = "ai_search"
    /\ Searched
    /\ req.text.docs = <<Passage(9, ContentA)>>
    /\ req.pdf.docs = <<Passage(9, ContentA)>>
    /\ ctx.passages = <<Passage(9, ContentA), Passage(9, ContentA)>>

\* the positions of the context text where an excerpt marker begins
Starts ==
    { p \in 1..(Len(ctx.text) - Len(ExcerptOpen) + 1) :
        /\ ctx.text[p] = ExcerptOpen[1]
        /\ SubSeq(ctx.text, p, p + Len(ExcerptOpen) - 1) = ExcerptOpen }

\* where the k-th marker of those at the positions starts begins
Start(starts, k) ==
    CHOOSE p \in starts : Cardinality({ q \in starts : q < p }) = k - 1

\* the k-th excerpt: marker number k, then the passage text, then a blank line
Excerpt(k) ==
    ExcerptOpen \o <<Digit(k)>> \o ExcerptClose
        \o FixLineBreaks(ctx.passages[k].content) \o <<"\n","\n">>

\* C27: a context that /aisearch builds holds n excerpts, 1 <= n <= 3, one
\* for each surviving passage, in ranked order; the k-th begins with the
\* marker numbered k, and the excerpts follow one another with nothing
\* between them.
C27_ExcerptsNumberedInRankedOrder ==
    (resp.op = "ai_search" /\ ctx.text # <<>>) =>
        \E n \in {Len(ctx.passages)}, starts \in {Starts} :
            /\ 1 <= n /\ n <= 3
            /\ Cardinality(starts) = n
            /\ Start(starts, 1) = 1
            /\ \A k \in 1..n :
                \E from \in {Start(starts, k)}, excerpt \in {Excerpt(k)} :
                    /\ SubSeq(ctx.text, from, from + Len(excerpt) - 1) = excerpt
                    /\ from + Len(excerpt) =
                           IF k = n THEN Len(ctx.text) + 1
                           ELSE Start(starts, k + 1)
            /\ \A k \in 1..(n - 1) :
                   ctx.passages[k].score >= ctx.passages[k + 1].score
            /\ \A k \in 1..n :
                /\ ctx.passages[k].score >= ScoreThreshold
                /\ Count(ctx.passages, ctx.passages[k])
                       <= Count(Combined, ctx.passages[k])

C27_Witness ==
    /\ resp.op = "ai_search"
    /\ Len(ctx.passages) = 3
    /\ ctx.passages =
           <<Passage(9, ContentA), Passage(7, ContentB), Passage(6, ContentA)>>

----------------------------------------------------------------------------
(* Properties of find_similar_faq and get_threshold_by_length *)

\* C28: a call of find_similar_faq leaves the cache as it was; it returns an
\* answer exactly when the lookup found an entry in a cache that is not
\* empty, the similarity s is in [-1, 1] and s is at least the mean of the
\* thresholds of the user question and of the matched question; the answer
\* is the one stored with the matched entry, and otherwise nothing is
\* returned.
C28_AnswerIffSimilarEnough ==
    [][ resp'.op = "find_similar_faq" =>
          /\ cache' = cache
          /\ resp'.kind \in {"answer", "None"}
          /\ resp'.kind = "answer" <=>
                /\ req'.faq.lookupOk
                /\ cache # <<>>
                /\ -1000 <= req'.faq.similarity
                /\ req'.faq.similarity <= 1000
                /\ 2 * req'.faq.similarity >=
                       ThresholdByLength(req'.question)
                         + ThresholdByLength(cache[req'.faq.nearest].question)
          /\ resp'.text = IF resp'.kind = "answer"
                          THEN cache[req'.faq.nearest].answer
                          ELSE <<>> ]_vars

C28_Witness ==
    /\ resp.op = "find_similar_faq"
    /\ resp.kind = "answer"
    /\ req.question = QuestionEnglish
    /\ cache[req.faq.nearest].question = QuestionLong
    /\ req.faq.similarity = 775
    /\ resp.text = cache[req.faq.nearest].answer

\* The word counts at the ends of the ranges of the default table and next to
\* them
WordCounts == {0, 1, 5, 6, 15, 16, 17, 1000, 1001}

\* a text of n words
Words(n) == [i \in 1..(IF n = 0 THEN 0 ELSE 2 * n - 1) |->
                IF i % 2 = 1 THEN "w" ELSE " "]

\* the same words with whitespace around them, which split() ignores
LengthTexts ==
    { Words(n) : n \in WordCounts }
        \cup { <<" ">> \o Words(n) \o <<"\n">> : n \in WordCounts }

\* get_threshold_by_length(text), called for one text and then for another
GetThresholdByLengthCall ==
    /\ phase \in {"received", "first"}
    /\ resp' = IF phase = "received"
               THEN [op |-> "get_threshold_by_length", kind |-> "first",
                     text |-> <<>>, thr |-> <<ThresholdByLength(req.text)>>]
               ELSE [resp EXCEPT !.kind = "both",
                                 !.thr = Append(@, ThresholdByLength(req.other))]
    /\ phase' = IF phase = "received" THEN "first" ELSE "responded"
    /\ UNCHANGED <<cache, req, calls, ctx, llm>>

LengthInit ==
    /\ cache = <<>>
    /\ req \in { [text |-> t, other |-> u] : t \in LengthTexts, u \in LengthTexts }
    /\ resp = NoResponse
    /\ calls = NoCalls
    /\ ctx = NoContext
    /\ llm = NotCalled
    /\ phase = "received"

LengthNext == GetThresholdByLengthCall

LengthSpec == LengthInit /\ [][LengthNext]_vars

\* C29: of two texts, the one with more words (split at whitespace) never
\* gets a lower threshold from get_threshold_by_length than the other.
C29_ThresholdNonDecreasing ==
    (resp.op = "get_threshold_by_length" /\ resp.kind = "both"
        /\ WordCount(req.text) <= WordCount(req.other))
    => resp.thr[1] <= resp.thr[2]

----------------------------------------------------------------------------
(* data_manager_api.py: the documents kept in rag_text.json *)

\* add_document is not tried once an id has reached MaxDocId
MaxDocId == 4

\* the file rag_text.json (kept in the variable cache): missing, holding
\* {"value": [...]}, or left unreadable by a save that failed after the file
\* was opened for writing
NoFile == [state |-> "missing", value |-> <<>>]
FileOf(docs) == [state |-> "ok", value |-> docs]
BrokenFile == [state |-> "broken", value |-> <<>>]

\* load_mock_data: the documents of the file, none when the file is missing
\* or cannot be read. Every item of a file written by add_document has an id,
\* so the loop that numbers items without one changes nothing.
LoadMockData(file) == IF file.state = "ok" THEN file.value ELSE <<>>

\* save_mock_data: the file holds the data; or open() fails and the file is
\* as before; or the dump fails and the file is left cut short
SaveOutcomes == {"saved", "refused", "cut"}

SaveMockData(file, docs, outcome) ==
    CASE outcome = "saved" -> FileOf(docs)
      [] outcome = "refused" -> file
      [] outcome = "cut" -> BrokenFile

\* a new id from the number of documents
NewIdByCount(docs) == Len(docs) + 1

\* max([doc.get("id", 0) for doc in data["value"]], default=0) + 1
NewId(docs) ==
    IF docs = <<>>
    THEN 1
    ELSE 1 + (CHOOSE m \in { docs[i].id : i \in 1..Len(docs) } :
                  \A i \in 1..Len(docs) : docs[i].id <= m)

DocContents == {ContentA, ContentB}

\* POST /api/add-document
AddDocument ==
    /\ \E content \in DocContents, outcome \in SaveOutcomes :
       \E docs \in {LoadMockData(cache)} :
       \E id \in {NewId(docs)} :
            /\ id <= MaxDocId
            /\ req' = [op |-> "add_document", content |-> content, doc_id |-> 0]
            /\ cache' = SaveMockData(cache,
                            Append(docs, [id |-> id, content |-> content]), outcome)
            /\ resp' = [op |-> "add_document",
                        kind |-> IF outcome = "saved" THEN "200" ELSE "500",
                        text |-> <<>>,
                        id |-> IF outcome = "saved" THEN id ELSE 0]
    /\ phase' = "responded"
    /\ UNCHANGED <<calls, ctx, llm>>

\* DELETE /api/documents/{doc_id}
DeleteDocument ==
    /\ \E doc_id \in 1..MaxDocId, outcome \in SaveOutcomes :
       \E docs \in {LoadMockData(cache)} :
       \E kept \in {SelectSeq(docs, LAMBDA doc : doc.id # doc_id)} :
            /\ req' = [op |-> "delete_document", content |-> <<>>, doc_id |-> doc_id]
            /\ cache' = IF Len(kept) = Len(docs)
                        THEN cache
                        ELSE SaveMockData(cache, kept, outcome)
            /\ resp' = [op |-> "delete_document",
                        kind |-> IF Len(kept) = Len(docs) THEN "404"
                                 ELSE IF outcome = "saved" THEN "200" ELSE "500",
                        text |-> <<>>,
                        id |-> 0]
    /\ phase' = "responded"
    /\ UNCHANGED <<calls, ctx, llm>>

DataInit ==
    /\ cache \in {NoFile, FileOf(<<>>)}
    /\ req = [op |-> "none", content |-> <<>>, doc_id |-> 0]
    /\ resp = [op |-> "none", kind |-> "none", text |-> <<>>, id |-> 0]
    /\ calls = NoCalls
    /\ ctx = NoContext
    /\ llm = NotCalled
    /\ phase = "idle"

DataNext == AddDocument \/ DeleteDocument

DataSpec == DataInit /\ [][DataNext]_vars

\* the documents the data manager has
Stored == LoadMockData(cache)

\* C30: from an empty store, after any add_document and delete_document
\* calls, no two stored documents have the same id; the document a
\* successful add_document stored has the id returned, which is one more
\* than the greatest id of the documents that were there (1 when there were
\* none) and so the id of none of them.
C30_IdsAreDistinct ==
    /\ \A i, j \in 1..Len(Stored) : i # j => Stored[i].id # Stored[j].id
    /\ (resp.op = "add_document" /\ resp.kind = "200") =>
          /\ Stored # <<>>
          /\ Stored[Len(Stored)].id = resp.id
          /\ \A i \in 1..(Len(Stored) - 1) : Stored[i].id < resp.id
          /\ \/ Len(Stored) = 1 /\ resp.id = 1
             \/ \E i \in 1..(Len(Stored) - 1) : Stored[i].id + 1 = resp.id

C30_Witness ==
    /\ resp.op = "add_document"
    /\ resp.kind = "200"
    /\ resp.id = 3
    /\ Len(Stored) = 2
    /\ Stored[1].id = 2
    /\ Stored[2].id = 3

====
